---- MODULE Spec2Model ----
(***************************************************************************)
(* Model of the finance tracker's coin-collecting mini-game                *)
(* (CoinCollectorGame) and of the App handler that receives its result.    *)
(*                                                                         *)
(* Lengths are fixed-point numbers in units of 1/100 of a world unit and   *)
(* elapsed time in units of 1/100 of a second, so that                     *)
(*   position += direction * moveSpeed * deltaTime                         *)
(* keeps the shape it has in the source (5 units/s * 0.01 s = 0.05 unit).  *)
(* A distance test  sqrt(dx^2 + dz^2) < r  is evaluated as                 *)
(* dx^2 + dz^2 < r^2, which is the same test on non-negative numbers.      *)
(***************************************************************************)
EXTENDS Integers, Sequences, FiniteSets, TLC

VARIABLES
  gameStarted,      \* useState(false)
  gameEnded,        \* useState(false)
  score,            \* useState(0)
  timeLeft,         \* useState(60)
  highScore,        \* useState(() => localStorage "financeGameHighScore" or 0)
  savedHighScore,   \* localStorage item "financeGameHighScore"
  obstacleHit,      \* useState(""): label of the warning shown
  player,           \* playerRef.current.position (x, z)
  direction,        \* directionRef.current
  coins,            \* coinsRef.current: sequence of positions
  obstacles,        \* obstaclesRef.current: sequence of [x, z, badDecision]
  endGameClosure,   \* score and highScore seen by the endGame the timer effect captured
  darkMode,         \* App: useState(false), passed down as a prop
  gameRewards,      \* App: useState(0)
  finishCalls,      \* number of onFinish calls since the session started
  lastFinish,       \* value of the last onFinish call
  timerFirings,     \* firings of the 1-second interval since the session started
  ticks             \* animation frames run since the session started

\* The keyboard as the key listeners see it
VARIABLES
  keysHeld,         \* movement keys that are down (keydown seen, no keyup yet)
  lastKeyEvent      \* per axis, the last key event the listeners handled for it

keyboardVars == <<keysHeld, lastKeyEvent>>

\* One run of the redraw loop  do { x, z = random } while (too close)
VARIABLES
  redraw            \* [pc, playerPos, x, z, rejected]: position in the loop,
                    \* the player's position it reads, the last candidate,
                    \* and whether a candidate was rejected in this run

\* everything outside the coin game's session
\* The tip banner and the warning banner, with the clock of their timeouts
VARIABLES
  showTip,              \* useState(false)
  showObstacleMessage,  \* useState(false)
  pendingTimeouts,      \* per banner, seconds left of each pending setTimeout
  sinceCollision        \* per banner, whole seconds since the last collision
                        \* that raised it (3 stands for 3 or more, or never)

bannerVars == <<showTip, showObstacleMessage, pendingTimeouts, sinceCollision>>

\* App: the expense list, the add-expense form and browser storage
VARIABLES
  expenses,         \* useState<Expense[]>([])
  newExpense,       \* useState({amount: "", category: "", description: ""})
  showAddExpense,   \* useState(false)
  localStorage,     \* items financeTrackerExpenses, financeGameRewards and
                    \* financeTrackerDarkMode
  appPhase,         \* "mounted": the mount effects have run and the updates
                    \* of the load effect are queued; "ready": applied
  loaded,           \* the values the load effect passed to its setState calls
  kept              \* the values the user last saw the app hold

storageVars ==
  <<expenses, newExpense, showAddExpense, localStorage, appPhase, loaded, kept>>

\* FinancialQuizGame
VARIABLES
  quizStarted,           \* gameStarted: useState(false)
  quizEnded,             \* gameEnded: useState(false)
  currentQuestionIndex,  \* useState(0)
  selectedAnswer,        \* useState(null): 0 for null, else the option chosen
  quizScore,             \* score: useState(0)
  showExplanation,       \* useState(false)
  isCorrect,             \* useState(false)
  quizHighScore,         \* highScore: useState(localStorage "financeQuizHighScore" or 0)
  savedQuizHighScore,    \* localStorage item "financeQuizHighScore"
  quizQuestions,         \* useState(QUIZ_QUESTIONS): questions by their
                         \* place (1..10) in QUIZ_QUESTIONS
  quizLastFinish,        \* value of the last onFinish call of the quiz, -1 if none
  correctCount,          \* questions of the current game answered correctly
  answeredQuestions      \* indices of the questions answered in this game

quizVars ==
  <<quizStarted, quizEnded, currentQuestionIndex, selectedAnswer, quizScore,
    showExplanation, isCorrect, quizHighScore, savedQuizHighScore,
    quizQuestions, quizLastFinish, correctCount, answeredQuestions>>

auxVars == <<keyboardVars, redraw, bannerVars, storageVars, quizVars>>

vars == <<gameStarted, gameEnded, score, timeLeft, highScore, savedHighScore,
          obstacleHit, player, direction, coins, obstacles, endGameClosure,
          darkMode, gameRewards, finishCalls, lastFinish,
          timerFirings, ticks, auxVars>>

\* the state of CoinCollectorGame and what App keeps of its results
sessionVars ==
  <<gameStarted, gameEnded, score, timeLeft, highScore, savedHighScore,
    obstacleHit, player, direction, coins, obstacles, endGameClosure,
    darkMode, gameRewards, finishCalls, lastFinish,
    timerFirings, ticks>>

----------------------------------------------------------------------------
(* Bounds of the model *)

\* animation frames explored per session
MaxTicks == 2
\* expenses added and finance points earned in one run of the model
MaxExpenses == 2
MaxRewards == 12

\* elapsed times of one frame, in 1/100 s: no time at all, and a pause of
\* two seconds (a throttled tab), which moves the player 10 units and in
\* two frames carries it past the wall
DeltaTimes == {0, 200}

----------------------------------------------------------------------------
(* Program constants; lengths in 1/100 of a world unit *)

NumCoins == 10
NumObstacles == 5
moveSpeed == 5
GameDuration == 60
CoinPoints == 10
ObstaclePenaltyLarge == CoinPoints + 5
ObstaclePenalty == 5
\* setTimeout(..., 3000), in seconds
BannerSeconds == 3

\* Math.max(-14, Math.min(14, ...))
PlayerBound == 1400
\* collisionDistance = 1.2 and 1.3
coinCollisionDistance == 120
obstacleCollisionDistance == 130
\* while (sqrt(...) < 5)
ExclusionRadius == 500
\* smallest value of (Math.random() - 0.5) * 25
SpawnMin == -1250

BAD_DECISIONS ==
  << "Carrying credit card balances month to month",
     "Taking payday loans with high interest",
     "Buying a car you can't afford",
     "Ignoring your retirement planning",
     "Making impulse purchases regularly" >>

\* the keys pressed in the explored runs: one per direction, of both families
Keys == {"ArrowUp", "s", "a", "ArrowRight"}

----------------------------------------------------------------------------
(* Helpers *)

Pos(x, z) == [x |-> x, z |-> z]

Max(a, b) == IF a > b THEN a ELSE b
Min(a, b) == IF a < b THEN a ELSE b

\* Math.pow(a.x - b.x, 2) + Math.pow(a.z - b.z, 2)
Dist2(a, b) == (a.x - b.x) * (a.x - b.x) + (a.z - b.z) * (a.z - b.z)

\* Math.max(-14, Math.min(14, v))
ClampNoUpper(v) == Max(-PlayerBound, v)
Clamp(v) == Max(-PlayerBound, Min(PlayerBound, v))

\* s.splice(i, 1)
RemoveAt(s, i) == SubSeq(s, 1, i - 1) \o SubSeq(s, i + 1, Len(s))

----------------------------------------------------------------------------
(* Random draws.  Math.random() is an input: the positions it can yield are *)
(* enumerated from a small set of sample points of the spawn square.        *)

\* (Math.random() - 0.5) * 25 for Math.random() = r / 1000, 0 <= r < 1000
SpawnCoordWide(r) == ((r - 500) * 30) \div 10
SpawnCoord(r) == ((r - 500) * 25) \div 10

\* Sample values of ((Math.random() - 0.5) * 25, (Math.random() - 0.5) * 25),
\* which are (0, 0.5), (0, 1.2), (3, 4), (10, 1) and (-12.5, -12.5):
\* inside the coin radius of the origin; exactly on the coin radius of the
\* origin (and inside its obstacle radius); exactly on the exclusion radius
\* of the origin; next to the point one frame of travel to the right of the
\* origin; the far corner of the spawn square.
Near == Pos(SpawnCoord(500), SpawnCoord(520))
OnCoinRadius == Pos(SpawnCoord(500), SpawnCoord(548))
OnExclusion == Pos(SpawnCoord(620), SpawnCoord(660))
Right == Pos(SpawnCoord(900), SpawnCoord(540))
Far == Pos(SpawnCoord(0), SpawnCoord(0))

\* the draws of the redraw loops
RandPositions == {Near, OnCoinRadius, OnExclusion, Right}

\* Outcomes of the ten draws of generateCoins
CoinLayouts ==
  { [i \in 1..NumCoins |-> CASE i = 3 -> OnCoinRadius [] OTHER -> Far],
    [i \in 1..NumCoins |->
       CASE i = 2 -> Near [] i = 9 -> Near [] OTHER -> Far] }

\* Outcomes of the five draws of generateObstacles
ObstacleLayouts ==
  { [i \in 1..NumObstacles |-> CASE i = 1 -> OnCoinRadius [] OTHER -> Far],
    [i \in 1..NumObstacles |->
       CASE i = 1 -> OnCoinRadius [] i = 4 -> OnCoinRadius [] OTHER -> Far] }

----------------------------------------------------------------------------
(* generateCoins / generateObstacles *)

\* BAD_DECISIONS[i % BAD_DECISIONS.length], i counted from 0
LabelOf(i) == BAD_DECISIONS[((i - 1) % Len(BAD_DECISIONS)) + 1]

generateCoins(layout) == [i \in 1..NumCoins |-> layout[i]]

generateObstacles(layout) ==
  [i \in 1..NumObstacles |->
     [x |-> layout[i].x, z |-> layout[i].z, badDecision |-> LabelOf(i)]]

----------------------------------------------------------------------------
(* checkCoinCollisions / checkObstacleCollisions *)

\* distance < collisionDistance (1.2)
CoinCollidesInclusive(playerPos, coinPos) ==
  Dist2(playerPos, coinPos) <= coinCollisionDistance * coinCollisionDistance
CoinCollides(playerPos, coinPos) ==
  Dist2(playerPos, coinPos) < coinCollisionDistance * coinCollisionDistance

\* distance < collisionDistance (1.3)
ObstacleCollides(playerPos, obstaclePos) ==
  Dist2(playerPos, obstaclePos)
    < obstacleCollisionDistance * obstacleCollisionDistance

\* the while-condition of the redraw loop: sqrt(...) < 5
TooCloseToOrigin(playerPos, p) ==
  Dist2(Pos(0, 0), p) < ExclusionRadius * ExclusionRadius
TooCloseAnywhere(playerPos, p) ==
  Dist2(playerPos, p) < (10 * ExclusionRadius) * (10 * ExclusionRadius)
TooClose(playerPos, p) ==
  Dist2(playerPos, p) < ExclusionRadius * ExclusionRadius

\* do { x, z = random } while (too close): the draws the loop can end with
AwayFromPlayer(playerPos) ==
  {p \in RandPositions : ~TooClose(playerPos, p)}

\* setScore((prev) => prev + 10)
AwardCoinCount(prev) == prev + 1
AwardCoin(prev) == prev + CoinPoints

\* setScore((prev) => Math.max(0, prev - 5))
PenalizeUnfloored(prev) == prev - ObstaclePenalty
Penalize(prev) == Max(0, prev - ObstaclePenalty)

\* coinsRef.current.splice(i, 1); ...; coinsRef.current.push(newCoin)
CollectNoReplace(cs, i, p) == RemoveAt(cs, i)
Collect(cs, i, p) == Append(RemoveAt(cs, i), p)

\* The loop  for (i = length - 1; i >= 0; i--)  from index i down (1-based).
\* st = [coins, score]; the result is the set of states the loop can end
\* in, one for every outcome of the redraws.
RECURSIVE CoinLoop(_, _, _)
CoinLoop(i, st, playerPos) ==
  IF i = 0 THEN {st}
  ELSE IF CoinCollides(playerPos, st.coins[i])
    THEN UNION { CoinLoop(i - 1,
                          [coins |-> Collect(st.coins, i, p),
                           score |-> AwardCoin(st.score)],
                          playerPos) : p \in AwayFromPlayer(playerPos) }
    ELSE CoinLoop(i - 1, st, playerPos)

checkCoinCollisions(cs, sc, playerPos) ==
  CoinLoop(Len(cs), [coins |-> cs, score |-> sc], playerPos)

\* obstacle.position.set(x, 0, z): the obstacle stays in its slot
RelocateAsNew(os, i, p) ==
  Append(RemoveAt(os, i),
         [x |-> p.x, z |-> p.z, badDecision |-> os[i].badDecision])
Relocate(os, i, p) == [os EXCEPT ![i].x = p.x, ![i].z = p.z]

\* st = [obstacles, score, hit]; hit is the argument of the last
\* setObstacleHit call
RECURSIVE ObstacleLoop(_, _, _)
ObstacleLoop(i, st, playerPos) ==
  IF i = 0 THEN {st}
  ELSE IF ObstacleCollides(playerPos, st.obstacles[i])
    THEN UNION { ObstacleLoop(i - 1,
                              [obstacles |-> Relocate(st.obstacles, i, p),
                               score |-> Penalize(st.score),
                               hit |-> st.obstacles[i].badDecision],
                              playerPos) : p \in AwayFromPlayer(playerPos) }
    ELSE ObstacleLoop(i - 1, st, playerPos)

checkObstacleCollisions(os, sc, hit, playerPos) ==
  ObstacleLoop(Len(os), [obstacles |-> os, score |-> sc, hit |-> hit],
               playerPos)

----------------------------------------------------------------------------
(* Effects *)

\* the guard  if (!gameStarted || gameEnded) return  of the key, timer and
\* scene effects: listeners, interval and animation loop exist while it holds
EffectsActiveWhileStarted == gameStarted
EffectsActive == gameStarted /\ ~gameEnded

\* Scene effect body: wallet.position.set(0, 0, 0), generateCoins,
\* generateObstacles
SceneSetupKeepPlayer ==
  /\ player' = player
  /\ \E layout \in CoinLayouts : coins' = generateCoins(layout)
  /\ \E layout \in ObstacleLayouts : obstacles' = generateObstacles(layout)
SceneSetup ==
  /\ player' = Pos(0, 0)
  /\ \E layout \in CoinLayouts : coins' = generateCoins(layout)
  /\ \E layout \in ObstacleLayouts : obstacles' = generateObstacles(layout)

----------------------------------------------------------------------------
\* localStorage.getItem: a string, or null for an item never set
Item(v) == [present |-> TRUE, value |-> v]

\* Number.prototype.toString of a non-negative integer, digit by digit
DigitChars == <<"0", "1", "2", "3", "4", "5", "6", "7", "8", "9">>

RECURSIVE NumberToString(_)
NumberToString(n) ==
  IF n < 10 THEN <<DigitChars[n + 1]>>
  ELSE Append(NumberToString(n \div 10), DigitChars[(n % 10) + 1])

\* parseInt of a string of decimal digits, read from the left
DigitValue(c) == CHOOSE d \in 0..9 : DigitChars[d + 1] = c

RECURSIVE ParseDigits(_, _)
ParseDigits(str, acc) ==
  IF str = << >> THEN acc
  ELSE ParseDigits(Tail(str), 10 * acc + DigitValue(Head(str)))

parseInt(str) == ParseDigits(str, 0)

\* Boolean.prototype.toString, and the test  savedDarkMode === "true"
BooleanToString(b) == IF b THEN "true" ELSE "false"
IsTrueString(str) == str = "true"

\* JSON.stringify of the expense array: the fields of each object in order
\* (the date, an ISO string, is left out of the model); JSON.parse builds
\* the objects again
JSONstringify(es) ==
  [i \in 1..Len(es) |->
     <<es[i].id, es[i].amount, es[i].category, es[i].description>>]

JSONparse(text) ==
  [i \in 1..Len(text) |->
     [id |-> text[i][1], amount |-> text[i][2], category |-> text[i][3],
      description |-> text[i][4]]]

\* what the three save effects write for the given state
SavedItems(es, rewards, dark) ==
  [expenses |-> Item(JSONstringify(es)),
   rewards |-> Item(NumberToString(rewards)),
   dark |-> Item(BooleanToString(dark))]

\* the add-expense form as useState creates it and addExpense resets it
EmptyForm == [amount |-> "", category |-> "", description |-> ""]

\* QUIZ_QUESTIONS: the ten questions, each named by its place in the list
QUIZ_QUESTIONS == <<1, 2, 3, 4, 5, 6, 7, 8, 9, 10>>

\* the two banners: financial tip (coin) and bad-decision warning (obstacle)
Banners == {"tip", "warning"}

\* no key event handled yet
NoKeyEvent == [type |-> "none", key |-> ""]

Init ==
  /\ gameStarted = FALSE
  /\ gameEnded = FALSE
  /\ score = 0
  /\ timeLeft = GameDuration
  /\ highScore = 0
  /\ savedHighScore = 0
  /\ obstacleHit = ""
  /\ player = Pos(0, 0)      \* playerRef is null until the scene is set up
  /\ direction = Pos(0, 0)
  /\ coins = << >>
  /\ obstacles = << >>
  /\ endGameClosure = [score |-> 0, highScore |-> 0]
  /\ darkMode = FALSE
  /\ gameRewards = 0
  /\ finishCalls = 0
  /\ lastFinish = 0
  /\ timerFirings = 0
  /\ ticks = 0
  /\ keysHeld = {}
  /\ lastKeyEvent = [x |-> NoKeyEvent, z |-> NoKeyEvent]
  /\ expenses = << >>
  /\ newExpense = EmptyForm
  /\ showAddExpense = FALSE
  /\ localStorage = SavedItems(<< >>, 0, FALSE)   \* written by the first mount
  /\ appPhase = "ready"
  /\ loaded = [expenses |-> << >>, rewards |-> 0, dark |-> FALSE]
  /\ kept = [expenses |-> << >>, rewards |-> 0, dark |-> FALSE]
  /\ quizStarted = FALSE
  /\ quizEnded = FALSE
  /\ currentQuestionIndex = 0
  /\ selectedAnswer = 0
  /\ quizScore = 0
  /\ showExplanation = FALSE
  /\ isCorrect = FALSE
  /\ quizLastFinish = -1
  /\ correctCount = 0
  /\ answeredQuestions = {}
  /\ quizHighScore = 0
  /\ savedQuizHighScore = 0
  /\ quizQuestions = QUIZ_QUESTIONS
  /\ showTip = FALSE
  /\ showObstacleMessage = FALSE
  /\ pendingTimeouts = [b \in Banners |-> {}]
  /\ sinceCollision = [b \in Banners |-> BannerSeconds]
  /\ redraw = [pc |-> "idle", playerPos |-> Pos(0, 0), x |-> 0, z |-> 0,
               rejected |-> FALSE]

\* Start Game / Play Again: startGame, then the effects of the render it
\* causes.  The timer effect captures that render's endGame, whose score
\* and highScore are the values of that render.
StartGame ==
  /\ ~gameStarted \/ gameEnded
  /\ gameStarted' = TRUE
  /\ score' = 0
  /\ timeLeft' = GameDuration
  /\ gameEnded' = FALSE
  /\ endGameClosure' = [score |-> score', highScore |-> highScore]
  /\ SceneSetup
  /\ finishCalls' = 0
  /\ timerFirings' = 0
  /\ ticks' = 0
  /\ UNCHANGED <<highScore, savedHighScore, obstacleHit, direction, darkMode,
                 gameRewards, lastFinish>>
  /\ UNCHANGED auxVars

\* handleKeyDown
KeyDownDirection(key) ==
  CASE key \in {"ArrowUp", "w"} -> [direction EXCEPT !.z = -1]
    [] key \in {"ArrowDown", "s"} -> [direction EXCEPT !.z = 1]
    [] key \in {"ArrowLeft", "a"} -> [direction EXCEPT !.x = -1]
    [] key \in {"ArrowRight", "d"} -> [direction EXCEPT !.x = 1]
    [] OTHER -> direction

\* handleKeyUp
KeyUpDirectionAllAxes(key) ==
  IF key \in {"ArrowUp", "ArrowDown", "w", "s", "ArrowLeft", "ArrowRight",
              "a", "d"}
    THEN Pos(0, 0)
    ELSE direction
KeyUpDirection(key) ==
  CASE key \in {"ArrowUp", "ArrowDown", "w", "s"} -> [direction EXCEPT !.z = 0]
    [] key \in {"ArrowLeft", "ArrowRight", "a", "d"} ->
         [direction EXCEPT !.x = 0]
    [] OTHER -> direction

KeyDown ==
  /\ EffectsActive
  /\ \E key \in Keys : direction' = KeyDownDirection(key)
  /\ UNCHANGED <<gameStarted, gameEnded, score, timeLeft, highScore,
                 savedHighScore, obstacleHit, player, coins, obstacles,
                 endGameClosure, darkMode, gameRewards, finishCalls,
                 lastFinish, timerFirings, ticks>>
  /\ UNCHANGED auxVars

KeyUp ==
  /\ EffectsActive
  /\ \E key \in Keys : direction' = KeyUpDirection(key)
  /\ UNCHANGED <<gameStarted, gameEnded, score, timeLeft, highScore,
                 savedHighScore, obstacleHit, player, coins, obstacles,
                 endGameClosure, darkMode, gameRewards, finishCalls,
                 lastFinish, timerFirings, ticks>>
  /\ UNCHANGED auxVars

\* player position after the move and the clamp of animate
MovePlayer(pos, dir, deltaTime) ==
  Pos(Clamp(pos.x + dir.x * moveSpeed * deltaTime),
      Clamp(pos.z + dir.z * moveSpeed * deltaTime))

\* const playerPos = playerRef.current.position, read by the collision
\* checks after animate has moved and clamped the player
CollisionPositionBeforeMove(before, moved) == before
CollisionPosition(before, moved) == moved

\* animate: one animation frame
Tick ==
  /\ EffectsActive
  /\ ticks < MaxTicks
  /\ \E deltaTime \in DeltaTimes :
       LET moved == MovePlayer(player, direction, deltaTime)
           playerPos == CollisionPosition(player, moved)
       IN
       \E c \in checkCoinCollisions(coins, score, playerPos) :
         \E o \in checkObstacleCollisions(obstacles, c.score, obstacleHit,
                                          playerPos) :
           /\ player' = moved
           /\ coins' = c.coins
           /\ obstacles' = o.obstacles
           /\ score' = o.score
           /\ obstacleHit' = o.hit
  /\ ticks' = ticks + 1
  /\ UNCHANGED <<gameStarted, gameEnded, timeLeft, highScore, savedHighScore,
                 direction, endGameClosure, darkMode, gameRewards,
                 finishCalls, lastFinish, timerFirings>>
  /\ UNCHANGED auxVars

\* App.handleGameFinish: Math.floor(score / 10) added to gameRewards
handleGameFinish(reported) == gameRewards + (reported \div 10)

\* if (prev <= 1) of the timer's updater
TimerExpiredAtZero(prev) == prev <= 0
TimerExpired(prev) == prev <= 1

\* How often React runs the updater passed to setTimeLeft.  endGame is a
\* side effect of that updater; React runs an updater once, or twice when
\* the tree is rendered in Strict Mode by a development build.
UpdaterRuns == {1, 2}

\* The interval callback: setTimeLeft(updater), with endGame as the timer
\* effect captured it.  Every run of the updater at prev <= 1 calls endGame,
\* and with it onFinish and setGameRewards(prev => prev + reward).
TimerFire ==
  /\ EffectsActive
  /\ timerFirings' = timerFirings + 1
  /\ IF TimerExpired(timeLeft)
       THEN /\ timeLeft' = 0
            /\ gameEnded' = TRUE
            /\ IF endGameClosure.score > endGameClosure.highScore
                 THEN /\ highScore' = endGameClosure.score
                      /\ savedHighScore' = endGameClosure.score
                 ELSE UNCHANGED <<highScore, savedHighScore>>
            /\ \E runs \in UpdaterRuns :
                 /\ gameRewards' = gameRewards
                      + runs * (handleGameFinish(endGameClosure.score)
                                - gameRewards)
                 /\ finishCalls' = finishCalls + runs
            /\ lastFinish' = endGameClosure.score
       ELSE /\ timeLeft' = timeLeft - 1
            /\ UNCHANGED <<gameEnded, highScore, savedHighScore, gameRewards,
                           lastFinish, finishCalls>>
  /\ UNCHANGED <<gameStarted, score, obstacleHit, player, direction, coins,
                 obstacles, endGameClosure, darkMode, ticks>>
  /\ UNCHANGED auxVars

\* Main Menu button of the Game Over overlay
MainMenu ==
  /\ gameStarted /\ gameEnded
  /\ gameStarted' = FALSE
  /\ UNCHANGED <<gameEnded, score, timeLeft, highScore, savedHighScore,
                 obstacleHit, player, direction, coins, obstacles,
                 endGameClosure, darkMode, gameRewards, finishCalls,
                 lastFinish, timerFirings, ticks>>
  /\ UNCHANGED auxVars

\* App: setDarkMode(!darkMode).  darkMode is a dependency of the scene
\* effect, which is torn down and set up again while a session runs, and of
\* the save effect that writes financeTrackerDarkMode.
ToggleDarkMode ==
  /\ appPhase = "ready"
  /\ darkMode' = ~darkMode
  /\ IF EffectsActive
       THEN SceneSetup
       ELSE UNCHANGED <<player, coins, obstacles>>
  /\ localStorage' =
       [localStorage EXCEPT !.dark = Item(BooleanToString(darkMode'))]
  /\ kept' = [kept EXCEPT !.dark = darkMode']
  /\ UNCHANGED <<gameStarted, gameEnded, score, timeLeft, highScore,
                 savedHighScore, obstacleHit, direction, endGameClosure,
                 gameRewards, finishCalls, lastFinish,
                 timerFirings, ticks>>
  /\ UNCHANGED <<keyboardVars, redraw, bannerVars, expenses, newExpense,
                 showAddExpense, appPhase, loaded>>
  /\ UNCHANGED quizVars

Next ==
  \/ StartGame
  \/ KeyDown
  \/ KeyUp
  \/ Tick
  \/ TimerFire
  \/ MainMenu

Spec == Init /\ [][Next]_vars

\* The session together with the App's dark-mode switch
NextApp ==
  \/ Next
  \/ ToggleDarkMode

SpecApp == Init /\ [][NextApp]_vars

----------------------------------------------------------------------------
(* The key listeners, with the keyboard followed key by key *)

\* the keys handleKeyDown and handleKeyUp distinguish, and one they ignore
AllKeys ==
  {"ArrowUp", "ArrowDown", "ArrowLeft", "ArrowRight", "w", "a", "s", "d",
   "Escape"}

\* the axis a key belongs to in the switch of both handlers
KeyAxis(key) ==
  CASE key \in {"ArrowUp", "ArrowDown", "w", "s"} -> "z"
    [] key \in {"ArrowLeft", "ArrowRight", "a", "d"} -> "x"
    [] OTHER -> "none"

\* lastKeyEvent after the listeners handled an event of the given type
RecordKeyEvent(type, key) ==
  CASE KeyAxis(key) = "x" ->
         [lastKeyEvent EXCEPT !.x = [type |-> type, key |-> key]]
    [] KeyAxis(key) = "z" ->
         [lastKeyEvent EXCEPT !.z = [type |-> type, key |-> key]]
    [] OTHER -> lastKeyEvent

\* window "keydown" (repeats while the key stays down) -> handleKeyDown
KeyDownEvent ==
  /\ EffectsActive
  /\ \E key \in AllKeys :
       /\ direction' = KeyDownDirection(key)
       /\ keysHeld' = keysHeld \cup {key}
       /\ lastKeyEvent' = RecordKeyEvent("down", key)
  /\ UNCHANGED <<gameStarted, gameEnded, score, timeLeft, highScore,
                 savedHighScore, obstacleHit, player, coins, obstacles,
                 endGameClosure, darkMode, gameRewards, finishCalls,
                 lastFinish, timerFirings, ticks>>
  /\ UNCHANGED redraw
  /\ UNCHANGED bannerVars
  /\ UNCHANGED storageVars
  /\ UNCHANGED quizVars

\* window "keyup" of a key that is down -> handleKeyUp
KeyUpEvent ==
  /\ EffectsActive
  /\ \E key \in keysHeld :
       /\ direction' = KeyUpDirection(key)
       /\ keysHeld' = keysHeld \ {key}
       /\ lastKeyEvent' = RecordKeyEvent("up", key)
  /\ UNCHANGED <<gameStarted, gameEnded, score, timeLeft, highScore,
                 savedHighScore, obstacleHit, player, coins, obstacles,
                 endGameClosure, darkMode, gameRewards, finishCalls,
                 lastFinish, timerFirings, ticks>>
  /\ UNCHANGED redraw
  /\ UNCHANGED bannerVars
  /\ UNCHANGED storageVars
  /\ UNCHANGED quizVars

NextKeys ==
  \/ StartGame
  \/ KeyDownEvent
  \/ KeyUpEvent

SpecKeys == Init /\ [][NextKeys]_vars

----------------------------------------------------------------------------
(* The redraw loop of a collected coin or a hit obstacle, draw by draw *)

\* positions of the player when the loop starts: the centre, the walls and
\* the corners of [-14, 14] x [-14, 14], and points between them
PlayerCoords == {-1400, -700, 0, 700, 1400}

\* values of (Math.random() - 0.5) * 25, which lies in [-12.5, 12.5)
SampleCoords == {SpawnMin, -600, 0, 600, 1200}

\* a collision starts the loop at the player's position
RedrawBegin ==
  /\ redraw.pc # "drawing"
  /\ \E px \in PlayerCoords, pz \in PlayerCoords :
       redraw' = [pc |-> "drawing", playerPos |-> Pos(px, pz),
                  x |-> redraw.x, z |-> redraw.z, rejected |-> FALSE]
  /\ UNCHANGED <<gameStarted, gameEnded, score, timeLeft, highScore,
                 savedHighScore, obstacleHit, player, direction, coins,
                 obstacles, endGameClosure, darkMode, gameRewards,
                 finishCalls, lastFinish, timerFirings, ticks,
                 keyboardVars,
                 bannerVars, storageVars, quizVars>>

\* one pass of the loop body whose candidate is closer than 5 to the
\* player: the while-condition holds and the loop goes round again
RedrawReject ==
  /\ redraw.pc = "drawing"
  /\ \E x \in SampleCoords, z \in SampleCoords :
       /\ TooClose(redraw.playerPos, Pos(x, z))
       /\ redraw' = [redraw EXCEPT !.x = x, !.z = z, !.rejected = TRUE]
  /\ UNCHANGED <<gameStarted, gameEnded, score, timeLeft, highScore,
                 savedHighScore, obstacleHit, player, direction, coins,
                 obstacles, endGameClosure, darkMode, gameRewards,
                 finishCalls, lastFinish, timerFirings, ticks,
                 keyboardVars,
                 bannerVars, storageVars, quizVars>>

\* one pass of the loop body whose candidate is at least 5 away: the loop
\* ends and position.set(x, 0, z) places the entity
RedrawAccept ==
  /\ redraw.pc = "drawing"
  /\ \E x \in SampleCoords, z \in SampleCoords :
       /\ ~TooClose(redraw.playerPos, Pos(x, z))
       /\ redraw' = [redraw EXCEPT !.x = x, !.z = z, !.pc = "placed"]
  /\ UNCHANGED <<gameStarted, gameEnded, score, timeLeft, highScore,
                 savedHighScore, obstacleHit, player, direction, coins,
                 obstacles, endGameClosure, darkMode, gameRewards,
                 finishCalls, lastFinish, timerFirings, ticks,
                 keyboardVars,
                 bannerVars, storageVars, quizVars>>

NextRedraw ==
  \/ RedrawBegin
  \/ RedrawReject
  \/ RedrawAccept

\* Fair sampling: every draw is independent and accepted with the same
\* positive probability, so a loop that keeps drawing does not reject for
\* ever.
SpecRedraw == Init /\ [][NextRedraw]_vars /\ WF_vars(RedrawAccept)

----------------------------------------------------------------------------
(* The banners and their timeouts, second by second *)

\* setShowTip(true) / setShowObstacleMessage(true) followed by
\* setTimeout(() => setShow...(false), 3000), as the state of the timeouts
\* and of the clock of banner b
RaiseBanner(b) ==
  /\ pendingTimeouts' =
       [pendingTimeouts EXCEPT ![b] = pendingTimeouts[b] \cup {BannerSeconds}]
  /\ sinceCollision' = [sinceCollision EXCEPT ![b] = 0]

\* checkCoinCollisions found a coin in reach: the tip banner is raised
CoinBanner ==
  /\ showTip' = TRUE
  /\ RaiseBanner("tip")
  /\ UNCHANGED <<showObstacleMessage, sessionVars, keyboardVars, redraw,
                 storageVars, quizVars>>

\* checkObstacleCollisions found an obstacle in reach: the warning banner
\* is raised
ObstacleBanner ==
  /\ showObstacleMessage' = TRUE
  /\ RaiseBanner("warning")
  /\ UNCHANGED <<showTip, sessionVars, keyboardVars, redraw, storageVars,
                 quizVars>>

\* the callback of a timeout that has run its 3000 ms: the banner is hidden
TimeoutFires ==
  /\ \E b \in Banners :
       /\ 0 \in pendingTimeouts[b]
       /\ pendingTimeouts' =
            [pendingTimeouts EXCEPT ![b] = pendingTimeouts[b] \ {0}]
       /\ IF b = "tip"
            THEN showTip' = FALSE /\ UNCHANGED showObstacleMessage
            ELSE showObstacleMessage' = FALSE /\ UNCHANGED showTip
  /\ UNCHANGED <<sinceCollision, sessionVars, keyboardVars, redraw,
                 storageVars, quizVars>>

\* one second passes; a timeout that is due fires before the clock moves on
SecondPasses ==
  /\ \A b \in Banners : 0 \notin pendingTimeouts[b]
  /\ pendingTimeouts' =
       [b \in Banners |-> {t - 1 : t \in pendingTimeouts[b]}]
  /\ sinceCollision' =
       [b \in Banners |-> Min(BannerSeconds, sinceCollision[b] + 1)]
  /\ UNCHANGED <<showTip, showObstacleMessage, sessionVars, keyboardVars,
                 redraw, storageVars, quizVars>>

NextBanner ==
  \/ CoinBanner
  \/ ObstacleBanner
  \/ TimeoutFires
  \/ SecondPasses

SpecBanner == Init /\ [][NextBanner]_vars

----------------------------------------------------------------------------
(* App: expenses, finance points and dark mode across page loads *)

\* values typed into the amount field and chosen in the category select
AmountInputs == {"", "12.5"}
CategoryInputs == {"", "Food & Dining"}

\* parseFloat of an amount input, in 1/100
parseFloat(str) == IF str = "12.5" THEN 1250 ELSE 0

\* scores a finished game reports to onFinish
FinishScores == {0, 15, 100}

\* everything of the app that a page load leaves alone in this model: no
\* game session is running when the page is loaded
otherVars == <<gameStarted, gameEnded, score, timeLeft, highScore,
               savedHighScore, obstacleHit, player, direction, coins,
               obstacles, endGameClosure, finishCalls, lastFinish,
               timerFirings, ticks,
               keyboardVars, redraw, bannerVars, quizVars>>

\* The page is loaded (again): App mounts with its initial state and the
\* mount effects run in order.  The load effect reads the saved items and
\* queues setExpenses, setGameRewards and setDarkMode; then the four save
\* effects write the state of this first render, the initial state.
LoadPage ==
  /\ \E prefersDarkMode \in BOOLEAN :
       loaded' =
         [expenses |-> IF localStorage.expenses.present
                         THEN JSONparse(localStorage.expenses.value)
                         ELSE << >>,
          rewards |-> IF localStorage.rewards.present
                        THEN parseInt(localStorage.rewards.value)
                        ELSE 0,
          dark |-> IF localStorage.dark.present
                     THEN IsTrueString(localStorage.dark.value)
                     ELSE prefersDarkMode]
  /\ expenses' = << >>
  /\ gameRewards' = 0
  /\ darkMode' = FALSE
  /\ newExpense' = EmptyForm
  /\ showAddExpense' = FALSE
  /\ localStorage' = SavedItems(expenses', gameRewards', darkMode')
  /\ appPhase' = "mounted"
  /\ UNCHANGED <<kept, otherVars>>

\* The render of the updates the load effect queued, and the save effects
\* of the values that changed
CommitLoaded ==
  /\ appPhase = "mounted"
  /\ expenses' = loaded.expenses
  /\ gameRewards' = loaded.rewards
  /\ darkMode' = loaded.dark
  /\ localStorage' = SavedItems(expenses', gameRewards', darkMode')
  /\ appPhase' = "ready"
  /\ kept' = [expenses |-> expenses', rewards |-> gameRewards',
              dark |-> darkMode']
  /\ UNCHANGED <<newExpense, showAddExpense, loaded, otherVars>>

\* "Add Expense" button: setShowAddExpense(true)
OpenAddExpense ==
  /\ appPhase = "ready"
  /\ ~showAddExpense
  /\ showAddExpense' = TRUE
  /\ UNCHANGED <<expenses, newExpense, localStorage, appPhase, loaded, kept,
                 darkMode, gameRewards, otherVars>>

\* close button of the modal: setShowAddExpense(false)
CloseAddExpense ==
  /\ appPhase = "ready"
  /\ showAddExpense
  /\ showAddExpense' = FALSE
  /\ UNCHANGED <<expenses, newExpense, localStorage, appPhase, loaded, kept,
                 darkMode, gameRewards, otherVars>>

\* onChange of the amount input and of the category select
EditNewExpense ==
  /\ appPhase = "ready"
  /\ showAddExpense
  /\ \/ \E a \in AmountInputs : newExpense' = [newExpense EXCEPT !.amount = a]
     \/ \E c \in CategoryInputs :
          newExpense' = [newExpense EXCEPT !.category = c]
  /\ UNCHANGED <<expenses, showAddExpense, localStorage, appPhase, loaded,
                 kept, darkMode, gameRewards, otherVars>>

\* addExpense, the form's submit handler, and the save effect of expenses
\* if (!newExpense.amount || !newExpense.category) return;
FormIncompleteAmountOnly == newExpense.amount = ""
FormIncomplete == newExpense.amount = "" \/ newExpense.category = ""

addExpense ==
  /\ appPhase = "ready"
  /\ showAddExpense
  /\ Len(expenses) < MaxExpenses
  /\ IF FormIncomplete
       THEN UNCHANGED <<expenses, newExpense, showAddExpense, localStorage,
                        kept>>
       ELSE /\ expenses' =
                 <<[id |-> Len(expenses) + 1,
                    amount |-> parseFloat(newExpense.amount),
                    category |-> newExpense.category,
                    description |-> newExpense.description]>> \o expenses
            /\ newExpense' = EmptyForm
            /\ showAddExpense' = FALSE
            /\ localStorage' =
                 [localStorage EXCEPT !.expenses = Item(JSONstringify(expenses'))]
            /\ kept' = [kept EXCEPT !.expenses = expenses']
  /\ UNCHANGED <<appPhase, loaded, darkMode, gameRewards, otherVars>>

\* onFinish of a game: handleGameFinish, and the save effect of gameRewards
GameFinished ==
  /\ appPhase = "ready"
  /\ \E reported \in FinishScores :
       /\ handleGameFinish(reported) <= MaxRewards
       /\ gameRewards' = handleGameFinish(reported)
  /\ localStorage' =
       [localStorage EXCEPT !.rewards = Item(NumberToString(gameRewards'))]
  /\ kept' = [kept EXCEPT !.rewards = gameRewards']
  /\ UNCHANGED <<expenses, newExpense, showAddExpense, appPhase, loaded,
                 darkMode, otherVars>>

NextPersist ==
  \/ LoadPage
  \/ CommitLoaded
  \/ OpenAddExpense
  \/ CloseAddExpense
  \/ EditNewExpense
  \/ addExpense
  \/ GameFinished
  \/ ToggleDarkMode

SpecPersist == Init /\ [][NextPersist]_vars

----------------------------------------------------------------------------
(* FinancialQuizGame *)

\* .slice(0, 5): take only 5 questions per game
QuestionsPerGame == 5

\* index (1..4) of correctAnswer among the options of each question
CorrectOptions == <<3, 3, 2, 2, 3, 4, 1, 3, 2, 2>>

\* 20 points per correct answer
QuizPointsOfCoin == CoinPoints
QuizPoints == 20

\* Outcomes of the comparator  () => Math.random() - 0.5  in the order the
\* sort calls it: TRUE for a positive result.  A stream is read cyclically.
RandomStreams ==
  { <<TRUE>>, <<FALSE>>, <<TRUE, FALSE>>, <<FALSE, TRUE>>,
    <<TRUE, TRUE, FALSE>>, <<FALSE, FALSE, TRUE>>,
    <<TRUE, FALSE, FALSE, TRUE, TRUE>> }

\* the k-th outcome of the comparator
ComparatorPositive(stream, k) == stream[((k - 1) % Len(stream)) + 1]

\* Array.prototype.slice(from, to) on a sequence
sliceInclusive(s, from, to) == SubSeq(s, from + 1, Min(Len(s), to + 1))
slice(s, from, to) == SubSeq(s, from + 1, Min(Len(s), to))

\* x placed behind the first j elements of s
InsertAfter(s, j, x) == SubSeq(s, 1, j) \o <<x>> \o SubSeq(s, j + 1, Len(s))

\* Array.prototype.sort as an insertion sort: x moves left past s[j] while
\* the comparator says that s[j] sorts after x.  k counts the calls of the
\* comparator.
RECURSIVE SortInsert(_, _, _, _, _)
SortInsert(s, x, j, stream, k) ==
  IF j >= 1 /\ ComparatorPositive(stream, k)
    THEN SortInsert(s, x, j - 1, stream, k + 1)
    ELSE [seq |-> InsertAfter(s, j, x), k |-> IF j >= 1 THEN k + 1 ELSE k]

RECURSIVE SortFrom(_, _, _, _, _)
SortFrom(s, i, sorted, stream, k) ==
  IF i > Len(s) THEN sorted
  ELSE LET r == SortInsert(sorted, s[i], Len(sorted), stream, k)
       IN SortFrom(s, i + 1, r.seq, stream, r.k)

\* [...QUIZ_QUESTIONS].sort(() => Math.random() - 0.5)
sort(s, stream) == SortFrom(s, 1, << >>, stream, 1)

\* startGame of the quiz: Start Quiz and Try Again
QuizStartGame ==
  /\ ~quizStarted \/ quizEnded
  /\ \E stream \in RandomStreams :
       LET shuffledQuestions == sort(QUIZ_QUESTIONS, stream)
       IN quizQuestions' = slice(shuffledQuestions, 0, QuestionsPerGame)
  /\ quizStarted' = TRUE
  /\ quizEnded' = FALSE
  /\ currentQuestionIndex' = 0
  /\ quizScore' = 0
  /\ selectedAnswer' = 0
  /\ showExplanation' = FALSE
  /\ correctCount' = 0
  /\ answeredQuestions' = {}
  /\ UNCHANGED <<isCorrect, quizHighScore, savedQuizHighScore, quizLastFinish>>
  /\ UNCHANGED <<sessionVars, keyboardVars, redraw, bannerVars, storageVars>>

\* handleAnswerSelect(option)
\* if (selectedAnswer) return;  and  disabled={!!selectedAnswer}
AnswerSelectedNever == FALSE
AnswerSelected == selectedAnswer # 0

handleAnswerSelect ==
  /\ quizStarted /\ ~quizEnded
  /\ \E answer \in 1..4 :
       IF AnswerSelected
         THEN UNCHANGED <<selectedAnswer, quizScore, isCorrect,
                          showExplanation, correctCount,
                          answeredQuestions>>
         ELSE /\ selectedAnswer' = answer
              /\ LET currentQuestion == quizQuestions[currentQuestionIndex + 1]
                 IN IF answer = CorrectOptions[currentQuestion]
                      THEN /\ quizScore' = quizScore + QuizPoints
                           /\ isCorrect' = TRUE
                           /\ correctCount' = correctCount + 1
                      ELSE /\ quizScore' = quizScore
                           /\ isCorrect' = FALSE
                           /\ correctCount' = correctCount
              /\ showExplanation' = TRUE
              /\ answeredQuestions' =
                   answeredQuestions \cup {currentQuestionIndex}
  /\ UNCHANGED <<quizStarted, quizEnded, currentQuestionIndex, quizHighScore,
                 savedQuizHighScore, quizQuestions, quizLastFinish>>
  /\ UNCHANGED <<sessionVars, keyboardVars, redraw, bannerVars, storageVars>>

\* handleNextQuestion, with endGame of the quiz after the last question
HasNextQuestionInclusive == currentQuestionIndex < Len(quizQuestions)
HasNextQuestion == currentQuestionIndex < Len(quizQuestions) - 1

handleNextQuestion ==
  /\ quizStarted /\ ~quizEnded
  /\ selectedAnswer # 0
  /\ IF HasNextQuestion
       THEN /\ currentQuestionIndex' = currentQuestionIndex + 1
            /\ selectedAnswer' = 0
            /\ showExplanation' = FALSE
            /\ UNCHANGED <<quizEnded, quizHighScore, savedQuizHighScore,
                           quizLastFinish>>
       ELSE /\ quizEnded' = TRUE
            /\ quizLastFinish' = quizScore
            /\ IF quizScore > quizHighScore
                 THEN /\ quizHighScore' = quizScore
                      /\ savedQuizHighScore' = quizScore
                 ELSE UNCHANGED <<quizHighScore, savedQuizHighScore>>
            /\ UNCHANGED <<currentQuestionIndex, selectedAnswer,
                           showExplanation>>
  /\ UNCHANGED <<quizStarted, quizScore, isCorrect, quizQuestions,
                 correctCount, answeredQuestions>>
  /\ UNCHANGED <<sessionVars, keyboardVars, redraw, bannerVars, storageVars>>

\* Main Menu button of the quiz results
QuizMainMenu ==
  /\ quizStarted /\ quizEnded
  /\ quizStarted' = FALSE
  /\ UNCHANGED <<quizEnded, currentQuestionIndex, selectedAnswer, quizScore,
                 showExplanation, isCorrect, quizHighScore,
                 savedQuizHighScore, quizQuestions, quizLastFinish,
                 correctCount, answeredQuestions>>
  /\ UNCHANGED <<sessionVars, keyboardVars, redraw, bannerVars, storageVars>>

NextQuiz ==
  \/ QuizStartGame
  \/ handleAnswerSelect
  \/ handleNextQuestion
  \/ QuizMainMenu

SpecQuiz == Init /\ [][NextQuiz]_vars

----------------------------------------------------------------------------
(* The session under a timer that keeps firing *)

\* a session's first animation frame
FirstTick == Tick /\ ticks = 0

NextTimed ==
  \/ StartGame
  \/ KeyDown
  \/ KeyUp
  \/ FirstTick
  \/ TimerFire
  \/ MainMenu

\* setInterval(..., 1000) fires again and again while the timer effect is
\* installed, that is, while TimerFire is enabled
SpecTimed == Init /\ [][NextTimed]_vars /\ WF_vars(TimerFire)

----------------------------------------------------------------------------
(* The session with the header's dark-mode switch *)

\* App.tsx renders the game inside <main> under the header, whose dark-mode
\* button stays clickable while a session runs
NextDark ==
  \/ StartGame
  \/ KeyDown
  \/ KeyUp
  \/ FirstTick
  \/ TimerFire
  \/ MainMenu
  \/ ToggleDarkMode

SpecDark == Init /\ [][NextDark]_vars

----------------------------------------------------------------------------
(* Properties *)

\* a step that runs one animation frame
FrameStep == ticks' = ticks + 1

\* number of coins of cs strictly closer than 1.2 to position p
CoinsWithin(cs, p) ==
  Cardinality({i \in 1..Len(cs) : Dist2(p, cs[i]) < 120 * 120})

\* indices of the obstacles of os strictly closer than 1.3 to position p
ObstaclesWithin(os, p) ==
  {i \in 1..Len(os) : Dist2(p, os[i]) < 130 * 130}

\* C1: the player's x and z both lie in [-14, 14] in every state of a
\* session, whatever frames, elapsed times and directions led to it.
PlayerInBounds ==
  gameStarted =>
    /\ -1400 <= player.x /\ player.x <= 1400
    /\ -1400 <= player.z /\ player.z <= 1400

\* C1 witness: a frame carried the player past the wall and the clamp put
\* it back on it.
PlayerOnWall ==
  /\ gameStarted /\ ~gameEnded
  /\ ticks = 2
  /\ player.x = 1400
  /\ player.z = -1400

\* C2: while a session runs there are exactly 10 coins and 5 obstacles.
EntityCountsConstant ==
  (gameStarted /\ ~gameEnded) =>
    /\ Len(coins) = 10
    /\ Len(obstacles) = 5

\* C2 witness: one frame at the origin hit two coins and two obstacles at
\* once (+20 - 10), and all four were replaced or relocated.
TwoCoinsTwoObstaclesHit ==
  /\ gameStarted /\ ~gameEnded
  /\ ticks = 1
  /\ score = 10
  /\ coins[9] \in {OnExclusion, Right} /\ coins[10] \in {OnExclusion, Right}
  /\ obstacles[1].x # 0 /\ obstacles[4].x # 0

\* C3: the score is never negative.
ScoreNonNegative == score >= 0

\* C3 witness: an obstacle was hit at score 0 (no coin was in reach, the
\* obstacle in slot 1 was relocated) and the score stayed 0.
PenaltyAtZero ==
  /\ gameStarted /\ ~gameEnded
  /\ ticks = 1
  /\ score = 0
  /\ coins[3] = OnCoinRadius
  /\ obstacles[1].x # 0

\* C4: every coin a frame puts in place of a collected one, and every
\* obstacle a frame relocates, lies at distance >= 5 from the player's
\* position in that frame.
PlacementAwayFromPlayer ==
  [][FrameStep =>
       LET k == CoinsWithin(coins, player') IN
       /\ \A j \in (Len(coins') - k + 1)..Len(coins') :
            Dist2(player', coins'[j]) >= 500 * 500
       /\ \A i \in ObstaclesWithin(obstacles, player') :
            Dist2(player', obstacles'[i]) >= 500 * 500]_vars

\* C4 witness: seen from a player away from the origin, a replaced coin
\* and a relocated obstacle lie near the origin, inside the exclusion
\* radius of the origin but not of the player.
PlacedNearOrigin ==
  /\ gameStarted /\ ~gameEnded
  /\ player = Pos(1000, 0)
  /\ coins[NumCoins] \in {Near, OnCoinRadius}
  /\ \E i \in 1..NumObstacles : obstacles[i].x = 0 /\ obstacles[i].z = 50

\* C5: when the timer ends a session, the value passed to onFinish is the
\* session's final score.
FinishReportsFinalScore ==
  (gameEnded /\ finishCalls > 0) => lastFinish = score

\* C6: after a session ends the high score, in the component and in
\* storage, is the larger of the high score the session started with and
\* the session's final score.
HighScoreIsMaximum ==
  gameEnded =>
    /\ highScore = Max(endGameClosure.highScore, score)
    /\ savedHighScore = highScore

\* C7: in a started session timeLeft never increases, a timer firing lowers
\* it by exactly 1 and not below 0, the session is marked ended in exactly
\* the step that brings timeLeft to 0, and a started session is ended if
\* and only if timeLeft = 0.
TimerCountsDown ==
  /\ [](gameStarted => (gameEnded <=> timeLeft = 0))
  /\ [][(gameStarted /\ ~gameEnded) =>
          /\ timeLeft' <= timeLeft
          /\ timeLeft' # timeLeft => (timeLeft' = timeLeft - 1 /\ timeLeft' >= 0)
          /\ gameEnded' <=> (timeLeft' = 0 /\ timeLeft = 1)]_vars

\* C7 witness: the timer has run a session down from 60 to 0 and ended it.
TimerRanOut ==
  /\ gameStarted /\ gameEnded
  /\ timeLeft = 0
  /\ finishCalls = 1

CoinCollectionExact ==
  [][FrameStep =>
       LET k == CoinsWithin(coins, player')
           m == Cardinality(ObstaclesWithin(obstacles, player'))
           Kept(c) == Dist2(player', c) >= 120 * 120
       IN
       /\ score' = Max(0, score + 10 * k - 5 * m)
       /\ (m = 0 => score' = score + 10 * k)
       /\ Len(coins') = Len(coins)
       /\ SubSeq(coins', 1, Len(coins) - k) = SelectSeq(coins, Kept)]_vars

\* C9 witness: a frame at the origin collected two coins at once (+20) and
\* hit one obstacle (-5).
TwoCoinsCollected ==
  /\ gameStarted /\ ~gameEnded
  /\ ticks = 1
  /\ player = Pos(0, 0)
  /\ score = 15

\* C10: in one frame every obstacle strictly closer than 1.3 to the player
\* lowers the score by 5 with a floor of 0, stays in its slot with its label
\* at a new position, and the warning shown after the frame carries that
\* obstacle's own label.
ObstacleHitShowsOwnLabel ==
  [][FrameStep =>
       LET k == CoinsWithin(coins, player')
           hit == ObstaclesWithin(obstacles, player')
       IN
       /\ score' = Max(0, score + 10 * k - 5 * Cardinality(hit))
       /\ Len(obstacles') = Len(obstacles)
       /\ \A i \in hit :
            /\ obstacles'[i].badDecision = obstacles[i].badDecision
            /\ <<obstacles'[i].x, obstacles'[i].z>>
                 # <<obstacles[i].x, obstacles[i].z>>
            /\ obstacleHit' = obstacles[i].badDecision]_vars

\* The part of C10 the code keeps: the score and the relocation are as
\* stated for every obstacle hit, and the warning shown after the frame
\* carries the label of the lowest-indexed obstacle hit in it.
ObstacleHitShowsLastLabel ==
  [][FrameStep =>
       LET k == CoinsWithin(coins, player')
           hit == ObstaclesWithin(obstacles, player')
       IN
       /\ score' = Max(0, score + 10 * k - 5 * Cardinality(hit))
       /\ Len(obstacles') = Len(obstacles)
       /\ \A i \in hit :
            /\ obstacles'[i].badDecision = obstacles[i].badDecision
            /\ <<obstacles'[i].x, obstacles'[i].z>>
                 # <<obstacles[i].x, obstacles[i].z>>
       /\ \A i \in 1..Len(obstacles) \ hit : obstacles'[i] = obstacles[i]
       /\ IF hit = {}
            THEN obstacleHit' = obstacleHit
            ELSE \E i \in hit :
                   /\ \A j \in hit : i <= j
                   /\ obstacleHit' = obstacles[i].badDecision]_vars

\* C11: a frame first moves the player by direction * 5 * deltaTime per
\* axis and clamps it to [-14, 14]; the collision tests then use that new
\* position: the coins change exactly when a coin is within 1.2 of it, and
\* an obstacle moves exactly when it is within 1.3 of it, wherever the
\* player was before the move.
CollisionsUsePostMovePosition ==
  [][FrameStep =>
       /\ \E dt \in DeltaTimes :
            /\ player'.x = Max(-1400, Min(1400, player.x + direction.x * 5 * dt))
            /\ player'.z = Max(-1400, Min(1400, player.z + direction.z * 5 * dt))
       /\ (coins' # coins) <=> (CoinsWithin(coins, player') > 0)
       /\ \A i \in 1..Len(obstacles) :
            (obstacles'[i] # obstacles[i])
              <=> (i \in ObstaclesWithin(obstacles, player'))]_vars

\* C11 witness: the player left the origin in its first frame; the two
\* coins and the obstacle that were in reach of the origin, but are not in
\* reach of the new position, are untouched.
MovedAwayFromCoins ==
  /\ gameStarted /\ ~gameEnded
  /\ ticks = 1
  /\ player = Pos(1000, 0)
  /\ coins[2] = Near /\ coins[9] = Near
  /\ obstacles[1].x = 0 /\ obstacles[1].z = 120
  /\ score = 0

\* the sequences of k coin awards and m obstacle penalties, in every order
ProcessingOrders(k, m) ==
  {o \in [1..(k + m) -> {"coin", "obstacle"}] :
     Cardinality({i \in 1..(k + m) : o[i] = "coin"}) = k}

\* the score after applying the functional updaters of the colliding
\* entities to sc in the order o, from position i on
RECURSIVE ScoreAfter(_, _, _)
ScoreAfter(o, i, sc) ==
  IF i > Len(o) THEN sc
  ELSE ScoreAfter(o, i + 1,
                  IF o[i] = "coin" THEN AwardCoin(sc) ELSE Penalize(sc))

StartGivesFreshSession ==
  [][((~gameStarted \/ gameEnded) /\ gameStarted' /\ ~gameEnded') =>
       /\ score' = 0
       /\ timeLeft' = 60
       /\ player' = Pos(0, 0)
       /\ Len(coins') = 10
       /\ Len(obstacles') = 5]_vars

\* C13 witness: a session just started by Play Again or Start Game after
\* an earlier session in which an obstacle was hit and the player had a
\* direction set.
FreshSessionAfterPlayedOne ==
  /\ gameStarted /\ ~gameEnded
  /\ ticks = 0 /\ timeLeft = 60 /\ score = 0
  /\ player = Pos(0, 0)
  /\ obstacleHit # ""
  /\ direction.x = 1

\* the value the claim gives an axis after the key event ev
AxisValueAfter(ev) ==
  CASE ev.type = "down" /\ ev.key \in {"ArrowUp", "w", "ArrowLeft", "a"} -> -1
    [] ev.type = "down" /\ ev.key \in {"ArrowDown", "s", "ArrowRight", "d"} -> 1
    [] OTHER -> 0

\* C14: both components of the direction are in {-1, 0, 1}, and each is
\* the value set by the last key event handled for its axis, whatever
\* happened on the other axis and whichever keys are still down: -1 or 1
\* after a key-down, 0 after a key-up.
DirectionFollowsLastKeyEvent ==
  /\ direction.x \in {-1, 0, 1}
  /\ direction.z \in {-1, 0, 1}
  /\ direction.x = AxisValueAfter(lastKeyEvent.x)
  /\ direction.z = AxisValueAfter(lastKeyEvent.z)

\* C14 witness: ArrowRight is still down, the last event of the x axis was
\* the release of the opposite key "a", and the z axis keeps the -1 of "w".
KeyUpWhileOppositeHeld ==
  /\ "ArrowRight" \in keysHeld
  /\ lastKeyEvent.x = [type |-> "up", key |-> "a"]
  /\ lastKeyEvent.z = [type |-> "down", key |-> "w"]
  /\ direction = Pos(0, -1)

FinishAddsTenthOfFinalScore ==
  [][/\ gameRewards' >= gameRewards
     /\ (~gameEnded /\ gameEnded') =>
          gameRewards' = gameRewards + (score' \div 10)]_vars

\* C17: for every position of the player there is a candidate of the
\* sampling region at distance at least 5 from it, and under fair sampling
\* every run of the redraw loop ends with the entity placed.
RedrawLoopTerminates ==
  /\ [](\A px \in PlayerCoords, pz \in PlayerCoords :
          \E x \in SampleCoords, z \in SampleCoords :
            Dist2(Pos(px, pz), Pos(x, z)) >= 500 * 500)
  /\ (redraw.pc = "drawing") ~> (redraw.pc = "placed")

\* C17 witness: a loop run for a player at the centre of the board ended
\* after it had rejected a candidate.
RedrawPlacedAfterRejection ==
  /\ redraw.pc = "placed"
  /\ redraw.playerPos = Pos(0, 0)
  /\ redraw.rejected
  /\ Dist2(redraw.playerPos, Pos(redraw.x, redraw.z)) >= 500 * 500

\* C18: a banner is visible during the 3 seconds that follow the
\* collision that raised it: while the last coin collection is less than 3
\* seconds old the tip is shown, and while the last obstacle hit is less
\* than 3 seconds old the warning is shown, whatever collisions came before.
BannerVisibleThreeSeconds ==
  /\ sinceCollision["tip"] < 3 => showTip
  /\ sinceCollision["warning"] < 3 => showObstacleMessage

\* C19: the state survives a reload.  When a page load has applied what it
\* read from storage, the expense list, the finance points and the
\* dark-mode preference are the values the user last saw; and while the
\* loaded values are still queued, storage holds the saved data they were
\* read from, not the initial empty state.
StateSurvivesReload ==
  [][/\ (appPhase = "mounted" /\ appPhase' = "ready") =>
          /\ expenses' = kept.expenses
          /\ gameRewards' = kept.rewards
          /\ darkMode' = kept.dark
     /\ appPhase' = "mounted" =>
          localStorage' = SavedItems(loaded'.expenses, loaded'.rewards,
                                     loaded'.dark)]_vars

\* C20: a quiz game in progress or finished has exactly 5 questions, all
\* of them from the list of 10 and no question twice, at every start and
\* restart.
QuizHasFiveDistinctQuestions ==
  quizStarted =>
    /\ Len(quizQuestions) = 5
    /\ \A i \in 1..Len(quizQuestions) : quizQuestions[i] \in 1..10
    /\ \A i, j \in 1..Len(quizQuestions) :
         i # j => quizQuestions[i] # quizQuestions[j]

\* C20 witness: a game started again after a finished game that scored,
\* with a question from the second half of the list in first place.
QuizRestartedShuffled ==
  /\ quizStarted /\ ~quizEnded
  /\ quizHighScore > 0
  /\ quizScore = 0 /\ currentQuestionIndex = 0
  /\ quizQuestions[1] > 5

\* C21: after every step the quiz score is 20 times the number of
\* questions of the current game answered correctly so far, hence one of
\* 0, 20, ..., 100; a wrong answer leaves the score as it was; and when the
\* game has ended the value given to onFinish is that final score.
QuizScoreCountsCorrectAnswers ==
  [][/\ quizScore' = 20 * correctCount'
     /\ quizScore' \in {0, 20, 40, 60, 80, 100}
     /\ (/\ quizStarted /\ ~quizEnded
         /\ selectedAnswer = 0 /\ selectedAnswer' # 0
         /\ selectedAnswer' #
              CorrectOptions[quizQuestions[currentQuestionIndex + 1]]) =>
          quizScore' = quizScore
     /\ quizEnded' => quizLastFinish' = quizScore']_vars

\* C21 witness: a finished game with three correct and two wrong answers,
\* reported as 60.
QuizFinishedWithSixty ==
  /\ quizStarted /\ quizEnded
  /\ correctCount = 3
  /\ quizScore = 60
  /\ quizLastFinish = 60

\* C22: in a session obstacle i (counted from 0) carries the label
\* BAD_DECISIONS[i mod 5] in every state, and a frame changes at most the
\* positions of the obstacles: every slot keeps its label.
ObstacleLabelsFixed ==
  [][/\ gameStarted' =>
          \A i \in 1..Len(obstacles') :
            obstacles'[i].badDecision = BAD_DECISIONS[((i - 1) % 5) + 1]
     /\ FrameStep =>
          /\ Len(obstacles') = Len(obstacles)
          /\ \A i \in 1..Len(obstacles) :
               obstacles'[i].badDecision = obstacles[i].badDecision]_vars

\* C22 witness: obstacles 1 and 4 (slots 0 and 3) were hit and relocated
\* to (10, 1) and still carry the first and the fourth label.
RelocatedObstaclesKeepLabels ==
  /\ gameStarted /\ ticks = 1
  /\ obstacles[1].x = 1000 /\ obstacles[1].z = 100
  /\ obstacles[4].x = 1000 /\ obstacles[4].z = 100
  /\ obstacles[1].badDecision = "Carrying credit card balances month to month"
  /\ obstacles[4].badDecision = "Ignoring your retirement planning"

\* C23: with a timer that keeps firing, every running session ends; and a
\* session that has ended did so at the 60th firing of the timer since its
\* start, whatever frames, key events and collisions happened in between.
SessionEndsAfterSixtyFirings ==
  /\ [](gameEnded => timerFirings = 60)
  /\ []((gameStarted /\ ~gameEnded) => timerFirings = 60 - timeLeft)
  /\ (gameStarted /\ ~gameEnded) ~> gameEnded

\* C23 witness: a session ended after a frame that moved the player and
\* changed the score, with a direction still set.
EndedAfterFrameAndKeys ==
  /\ gameStarted /\ gameEnded
  /\ timerFirings = 60
  /\ ticks = 1
  /\ player = Pos(1000, 0)
  /\ direction.x = 1
  /\ obstacleHit # ""

\* C24: a change of the dark-mode switch while a session is running leaves
\* the simulation as it was: the player's position, the coins, the
\* obstacles, the score and the time left.
DarkModeToggleKeepsSimulation ==
  [][(gameStarted /\ ~gameEnded /\ darkMode' # darkMode) =>
       /\ player' = player
       /\ coins' = coins
       /\ obstacles' = obstacles
       /\ score' = score
       /\ timeLeft' = timeLeft]_vars

\* C25: every step that starts a session leaves the movement direction at
\* (0, 0), so that a player who presses no key stays at the origin, also
\* when a movement key was held down as the previous session ended.
SessionStartsWithZeroDirection ==
  [][((~gameStarted \/ gameEnded) /\ gameStarted' /\ ~gameEnded') =>
       direction' = Pos(0, 0)]_vars

\* C26: the score is a multiple of 5 in every reachable state, so the floor
\* of Math.max(0, score - 5) changes the result of a penalty only when the
\* score is 0.
ScoreIsMultipleOfFive ==
  /\ score % 5 = 0
  /\ Penalize(score) # PenalizeUnfloored(score) => score = 0

\* C26 witness: a running session whose score is an odd multiple of 5, after
\* coins were collected and an obstacle took 5 points above the floor.
ScoreOddMultipleOfFive ==
  /\ gameStarted /\ ~gameEnded
  /\ ticks = 2
  /\ score = 15

\* C27: every coin and every obstacle, as first placed and as replaced or
\* relocated, has both coordinates in [-12.5, 12.5], strictly inside the
\* player's range [-14, 14]; the first placement keeps no distance from the
\* origin.
EntitiesInsideSpawnSquare ==
  /\ \A i \in 1..Len(coins) :
       /\ -1250 <= coins[i].x /\ coins[i].x <= 1250
       /\ -1250 <= coins[i].z /\ coins[i].z <= 1250
       /\ -1400 < coins[i].x /\ coins[i].x < 1400
       /\ -1400 < coins[i].z /\ coins[i].z < 1400
  /\ \A i \in 1..Len(obstacles) :
       /\ -1250 <= obstacles[i].x /\ obstacles[i].x <= 1250
       /\ -1250 <= obstacles[i].z /\ obstacles[i].z <= 1250
       /\ -1400 < obstacles[i].x /\ obstacles[i].x < 1400
       /\ -1400 < obstacles[i].z /\ obstacles[i].z < 1400

\* C27 witness: a session just started, before its first frame, with a coin
\* and an obstacle placed within collision distance of the player at the
\* origin, and with a coin on the edge of the spawn square.
EntitiesStartNextToOrigin ==
  /\ gameStarted /\ ~gameEnded
  /\ ticks = 0
  /\ player = Pos(0, 0)
  /\ \E i \in 1..Len(coins) : Dist2(coins[i], player) < 120 * 120
  /\ \E i \in 1..Len(obstacles) : Dist2(obstacles[i], player) < 130 * 130
  /\ \E i \in 1..Len(coins) : coins[i].x = -1250

\* C28: once an answer is selected for the current question of the quiz, a
\* further selection on that question changes neither selectedAnswer nor
\* isCorrect nor the score, so each question contributes at most 20 points:
\* the score never exceeds 20 times the number of questions reached, and 20
\* times the number of questions passed while the current one is open.
SelectedAnswerIsFinal ==
  /\ [](quizStarted =>
          /\ quizScore <= 20 * (currentQuestionIndex + 1)
          /\ selectedAnswer = 0 => quizScore <= 20 * currentQuestionIndex)
  /\ [][(quizStarted /\ quizStarted' /\ selectedAnswer # 0
         /\ currentQuestionIndex' = currentQuestionIndex) =>
          /\ selectedAnswer' = selectedAnswer
          /\ isCorrect' = isCorrect
          /\ quizScore' = quizScore]_vars

\* C28 witness: the third question has been answered and each of the three
\* questions so far contributed its 20 points.
ThreeQuestionsTwentyEach ==
  /\ quizStarted /\ ~quizEnded
  /\ currentQuestionIndex = 2
  /\ selectedAnswer # 0
  /\ isCorrect
  /\ quizScore = 60

\* C29: in a running quiz game currentQuestionIndex is in
\* [0, quizQuestions.length - 1]; it changes only by Next, by 1, after an
\* answer was selected, and that step clears the selection and the
\* explanation; the game ends exactly when Next is pressed on the last
\* question, and then all 5 questions have been answered.
QuestionIndexAdvancesByNext ==
  /\ [](quizStarted /\ ~quizEnded =>
          /\ 0 <= currentQuestionIndex
          /\ currentQuestionIndex <= Len(quizQuestions) - 1)
  /\ [][(quizStarted /\ ~quizEnded
         /\ currentQuestionIndex' # currentQuestionIndex) =>
          /\ handleNextQuestion
          /\ currentQuestionIndex' = currentQuestionIndex + 1
          /\ selectedAnswer # 0
          /\ selectedAnswer' = 0
          /\ ~showExplanation']_vars
  /\ [][(~quizEnded /\ quizEnded') =>
          /\ handleNextQuestion
          /\ currentQuestionIndex = Len(quizQuestions) - 1
          /\ answeredQuestions = 0..4]_vars
  /\ [][(handleNextQuestion
         /\ currentQuestionIndex = Len(quizQuestions) - 1) =>
          quizEnded']_vars

\* C29 witness: a game that Next ended on its fifth question, with all five
\* questions answered and only one of them correctly.
QuizEndedOnFifthQuestion ==
  /\ quizStarted /\ quizEnded
  /\ currentQuestionIndex = 4
  /\ answeredQuestions = 0..4
  /\ selectedAnswer # 0
  /\ quizScore = 20

\* C30: a submission of the add-expense form with an empty amount or an
\* empty category leaves the expense list, the form fields and the modal as
\* they were; a submission with both present puts exactly one new expense in
\* front of the unchanged existing ones, empties the form fields and closes
\* the modal.
AddExpenseValidatesForm ==
  [][addExpense =>
       IF newExpense.amount = "" \/ newExpense.category = ""
         THEN /\ expenses' = expenses
              /\ newExpense' = newExpense
              /\ showAddExpense' = showAddExpense
         ELSE /\ Len(expenses') = Len(expenses) + 1
              /\ Tail(expenses') = expenses
              /\ Head(expenses').category = newExpense.category
              /\ Head(expenses').amount = parseFloat(newExpense.amount)
              /\ newExpense' =
                   [amount |-> "", category |-> "", description |-> ""]
              /\ ~showAddExpense']_vars

\* C30 witness: two expenses were submitted one after the other; the later
\* one stands in front of the earlier one, the form is empty and the modal
\* is closed.
SecondExpensePrepended ==
  /\ appPhase = "ready"
  /\ Len(expenses) = 2
  /\ expenses[1].id = 2
  /\ expenses[2].id = 1
  /\ newExpense.amount = "" /\ newExpense.category = ""
  /\ ~showAddExpense

====
